---- MODULE Spec2Model ----
(***************************************************************************)
(* Model of health-notion: src/utils/func.py (duration parser, recursive   *)
(* block-tree fetch, sleep/steps aggregation, page create / update) and    *)
(* src/morning_script.py (the command-line pipeline).                      *)
(*                                                                         *)
(* The program is a one-shot, single-threaded script.  Its observable      *)
(* state is what a call leaves behind: the value returned, the exception   *)
(* that reached the caller, the requests sent to the page/block API, the   *)
(* records written to the logger and the exit status of the process.       *)
(*                                                                         *)
(* Conventions                                                             *)
(*  - a Python str is a sequence of one-character strings;                 *)
(*  - a float number of hours h is kept exactly as h*3600 seconds (the     *)
(*    duration parser) or h*60 minutes (the aggregator); rounding of       *)
(*    binary floating point is not modelled;                               *)
(*  - a Python dict with a fixed key set is a record; the empty dict {} is *)
(*    EmptyDict;                                                           *)
(*  - an exception is the name of its class, NoExc when none was raised.   *)
(***************************************************************************)
EXTENDS Integers, Sequences, FiniteSets, TLC

VARIABLES
    pc,         \* which call has completed: "idle" before any call
    arg,        \* the arguments of the call
    ret,        \* the value the call returned (None when it raised)
    raised,     \* the exception class that reached the caller, or NoExc
    requests,   \* the API requests issued during the call, in order
    log,        \* the log records written during the call, in order
    df_last_night, \* process_input_data's local of that name when it ended
    exitCode    \* the exit status of the process (morning_script only)

vars == <<pc, arg, ret, raised, requests, log, df_last_night, exitCode>>

NoExc == "none"
None == "None"
EmptyDict == [k \in {} |-> None]

(***************************************************************************)
(* Bounds of the model                                                     *)
(***************************************************************************)
MaxDurLen == 7
MaxBlocks == 3
MaxSamples == 2
MaxSteps == 2
MaxPages == 2

RECURSIVE SeqsUpTo(_, _)
SeqsUpTo(S, n) ==
    IF n = 0 THEN { <<>> }
    ELSE LET shorter == SeqsUpTo(S, n - 1)
         IN  shorter \cup { Append(q, x) : q \in { r \in shorter : Len(r) = n - 1 }, x \in S }

RECURSIVE SumSeq(_)
SumSeq(q) == IF q = <<>> THEN 0 ELSE Head(q) + SumSeq(Tail(q))

(***************************************************************************)
(* Python built-ins used by the code                                       *)
(***************************************************************************)
Digits == {"0", "1", "2", "3", "4", "5", "6", "7", "8", "9"}

DigitValue(c) ==
    CASE c = "0" -> 0 [] c = "1" -> 1 [] c = "2" -> 2 [] c = "3" -> 3
      [] c = "4" -> 4 [] c = "5" -> 5 [] c = "6" -> 6 [] c = "7" -> 7
      [] c = "8" -> 8 [] c = "9" -> 9

\* str.split(":"): always at least one part, empty parts kept.
RECURSIVE SplitFrom(_, _, _)
SplitFrom(s, i, cur) ==
    IF i > Len(s) THEN << cur >>
    ELSE IF s[i] = ":" THEN << cur >> \o SplitFrom(s, i + 1, << >>)
    ELSE SplitFrom(s, i + 1, Append(cur, s[i]))

Split(s) == SplitFrom(s, 1, << >>)

\* The decimal value of a string of digits.
RECURSIVE DecimalValue(_)
DecimalValue(tok) ==
    IF tok = << >> THEN 0
    ELSE 10 * DecimalValue(SubSeq(tok, 1, Len(tok) - 1)) + DigitValue(tok[Len(tok)])

\* A Python value as int() sees it.
PyIntOf(n) == [kind |-> "int", val |-> n]
PyStrOf(s) == [kind |-> "str", val |-> s]
PyListOf(l) == [kind |-> "list", val |-> l]

\* int(v): an int is returned as is, a str is parsed (ValueError unless it is
\* a non-empty run of digits), a list is a TypeError.
PyInt(v) ==
    CASE v.kind = "int" -> [exc |-> NoExc, val |-> v.val]
      [] v.kind = "str" ->
            IF v.val # << >> /\ \A i \in 1..Len(v.val) : v.val[i] \in Digits
            THEN [exc |-> NoExc, val |-> DecimalValue(v.val)]
            ELSE [exc |-> "ValueError", val |-> 0]
      [] v.kind = "list" -> [exc |-> "TypeError", val |-> 0]

(***************************************************************************)
(* convert_duration_to_hours                                               *)
(***************************************************************************)
\* The three variables as the if/elif chain leaves them.
DurationFields(parts) ==
    CASE Len(parts) = 3 ->
            [hours |-> PyStrOf(parts[1]), minutes |-> PyStrOf(parts[2]),
             seconds |-> PyStrOf(parts[3])]
      [] Len(parts) = 2 ->
            [hours |-> PyIntOf(0), minutes |-> PyStrOf(parts[1]),
             seconds |-> PyStrOf(parts[2])]
      [] Len(parts) = 1 ->
            [hours |-> PyIntOf(0), minutes |-> PyIntOf(0),
             seconds |-> PyListOf(parts)]

\* Returns [exc, seconds]: seconds is total_hours * 3600.
convert_duration_to_hours(duration_str) ==
    LET parts == Split(duration_str)
    IN  IF Len(parts) \notin {1, 2, 3}
        THEN [exc |-> "ValueError", seconds |-> 0]
        ELSE LET f == DurationFields(parts)
                 h == PyInt(f.hours)
                 m == PyInt(f.minutes)
                 s == PyInt(f.seconds)
             IN  IF h.exc # NoExc THEN [exc |-> h.exc, seconds |-> 0]
                 ELSE IF m.exc # NoExc THEN [exc |-> m.exc, seconds |-> 0]
                 ELSE IF s.exc # NoExc THEN [exc |-> s.exc, seconds |-> 0]
                 ELSE [exc |-> NoExc, seconds |-> 3600 * h.val + 60 * m.val + s.val]

DurationChars == {"0", "1", "3", ":"}
DurationStrings == SeqsUpTo(DurationChars, MaxDurLen)

CallConvertDuration ==
    /\ pc = "idle"
    /\ \E s \in DurationStrings :
          LET r == convert_duration_to_hours(s)
          IN  /\ arg' = s
              /\ ret' = IF r.exc = NoExc THEN r.seconds ELSE None
              /\ raised' = r.exc
    /\ pc' = "converted"
    /\ UNCHANGED <<requests, log, df_last_night, exitCode>>

(***************************************************************************)
(* The block API as get_children_rec sees it                               *)
(*                                                                         *)
(* A template is a tree of blocks 1..n under the page, block 0.  parent[c] *)
(* is the block c sits in, type[c] its type, and fails the blocks whose    *)
(* list-children request raises.  The API lists the children of a block in *)
(* ascending id, and reports has_children exactly for the blocks that have *)
(* some.                                                                   *)
(***************************************************************************)
BlockTypes == {"toggle", "paragraph", "synced_block"}

\* The templates of n blocks.
ApisOfSize(n) ==
    { [n |-> n, parent |-> p, type |-> t, fails |-> f] :
          p \in { q \in [1..n -> 0..n] : \A c \in 1..n : q[c] < c },
          t \in [1..n -> BlockTypes],
          f \in SUBSET (0..n) }

RECURSIVE SortedSeq(_)
SortedSeq(S) ==
    IF S = {} THEN << >>
    ELSE LET m == CHOOSE x \in S : \A y \in S : x <= y
         IN  << m >> \o SortedSeq(S \ {m})

ChildIds(api, id) == SortedSeq({ c \in 1..api.n : api.parent[c] = id })

\* A block descriptor as the API returns it.  obj is the entry stored under
\* the key named by the block's type: key is that key, keys the keys the entry
\* holds and children the value under "children" when it holds one.
BlockOf(api, c) ==
    [id |-> c,
     type |-> api.type[c],
     has_children |-> ChildIds(api, c) # << >>,
     obj |-> [key |-> api.type[c], keys |-> {}, children |-> << >>]]

\* notion.blocks.children.list(block_id=id)
ListChildren(api, id) ==
    IF id \in api.fails
    THEN [exc |-> "APIResponseError", results |-> << >>]
    ELSE [exc |-> NoExc,
          results |-> [i \in 1..Len(ChildIds(api, id)) |-> BlockOf(api, ChildIds(api, id)[i])]]

ListRequest(id) == [op |-> "blocks.children.list", block_id |-> id]

(***************************************************************************)
(* get_children_rec                                                        *)
(***************************************************************************)
\* Mutant: the synced_block test is dropped.
ShouldExpandAnyType(child) == child.has_children

\* func.py 103-104: the two nested conditions.
ShouldExpand(child) == child.has_children /\ ~(child.type = "synced_block")

\* func.py 105: child[child["type"]]["children"] = <list>
AttachChildren(child, list) ==
    [child EXCEPT !.obj = [key |-> child.type,
                           keys |-> child.obj.keys \cup {"children"},
                           children |-> list]]

\* Mutant: the error is logged and raised again.
FetchHandlerReraise(page_id, body) ==
    IF body.exc = NoExc THEN body
    ELSE [body EXCEPT !.errs = Append(@, page_id)]

\* func.py 110-114: except Exception: logger.error(...); return blocks
FetchHandler(page_id, body) ==
    IF body.exc = NoExc THEN body
    ELSE [body EXCEPT !.errs = Append(@, page_id), !.exc = NoExc]

\* A call's outcome: the blocks list, the requests issued, the block ids for
\* which an error was logged, and the exception leaving the call.
RECURSIVE get_children_rec(_, _)
RECURSIVE FetchLoop(_, _, _, _)

\* func.py 101-109: the for loop, from the i-th child on.
FetchLoop(api, children, i, acc) ==
    IF i > Len(children) THEN acc
    ELSE LET child == children[i]
         IN  IF ShouldExpand(child)
             THEN LET sub == get_children_rec(api, child.id)
                      seen == [acc EXCEPT !.reqs = @ \o sub.reqs, !.errs = @ \o sub.errs]
                  IN  IF sub.exc # NoExc
                      THEN [seen EXCEPT !.exc = sub.exc]
                      ELSE FetchLoop(api, children, i + 1,
                               [seen EXCEPT !.blocks =
                                    Append(@, AttachChildren(child, sub.blocks))])
             ELSE FetchLoop(api, children, i + 1,
                      [acc EXCEPT !.blocks = Append(@, child)])

get_children_rec(api, page_id) ==
    LET response == ListChildren(api, page_id)
        start == [blocks |-> << >>, reqs |-> << ListRequest(page_id) >>,
                  errs |-> << >>, exc |-> NoExc]
    IN  FetchHandler(page_id,
            IF response.exc # NoExc
            THEN [start EXCEPT !.exc = response.exc]
            ELSE FetchLoop(api, response.results, 1, start))

ErrorRecords(ids) == [i \in 1..Len(ids) |-> [level |-> "ERROR", about |-> ids[i]]]

CallGetChildrenRec ==
    /\ pc = "idle"
    /\ \E n \in 0..MaxBlocks : \E api \in ApisOfSize(n) :
          LET r == get_children_rec(api, 0)
          IN  /\ arg' = api
              /\ ret' = IF r.exc = NoExc THEN r.blocks ELSE None
              /\ raised' = r.exc
              /\ requests' = r.reqs
              /\ log' = ErrorRecords(r.errs)
    /\ pc' = "fetched"
    /\ UNCHANGED <<df_last_night, exitCode>>

(***************************************************************************)
(* Dates: datetime, timedelta, strftime and pandas.to_datetime             *)
(***************************************************************************)
MonthAbbr == << "Jan", "Feb", "Mar", "Apr", "May", "Jun",
                "Jul", "Aug", "Sep", "Oct", "Nov", "Dec" >>
MonthName == << "January", "February", "March", "April", "May", "June", "July",
                "August", "September", "October", "November", "December" >>

IsLeap(y) == (y % 4 = 0 /\ y % 100 # 0) \/ y % 400 = 0

DaysInMonth(y, m) ==
    IF m = 2 THEN (IF IsLeap(y) THEN 29 ELSE 28)
    ELSE IF m \in {4, 6, 9, 11} THEN 30 ELSE 31

\* date.toordinal(): 1 for 1 Jan of year 1.
Ordinal(y, m, d) ==
    365 * (y - 1) + ((y - 1) \div 4) - ((y - 1) \div 100) + ((y - 1) \div 400)
        + SumSeq([k \in 1..(m - 1) |-> DaysInMonth(y, k)]) + d

\* Minutes since the start of year 1.
ToMinutes(t) == (Ordinal(t.year, t.month, t.day) - 1) * 1440 + t.hour * 60 + t.minute

\* pandas.NaT, the timestamp that is no time.
NaT == [year |-> 0, month |-> 0, day |-> 0, hour |-> 0, minute |-> 0]
IsNaT(t) == t.month = 0

\* t - timedelta(days=1)
MinusOneDay(t) ==
    IF t.day > 1 THEN [t EXCEPT !.day = @ - 1]
    ELSE IF t.month > 1
         THEN [t EXCEPT !.month = @ - 1, !.day = DaysInMonth(t.year, t.month - 1)]
         ELSE [t EXCEPT !.year = @ - 1, !.month = 12, !.day = 31]

\* A date string "DD Mon YYYY at HH:MM" is kept by its five fields, mon being
\* the text of the month.  pandas.to_datetime(..., format="%d %b %Y at %H:%M")
\* looks the month up and rejects a field out of range.
ToDatetime(str) ==
    LET months == { k \in 1..12 : MonthAbbr[k] = str.mon }
    IN  IF months = {} \/ str.hh \notin 0..23 \/ str.mi \notin 0..59
        THEN [exc |-> "ValueError", ts |-> NaT]
        ELSE LET m == CHOOSE k \in months : TRUE
             IN  IF str.dd \notin 1..DaysInMonth(str.yyyy, m)
                 THEN [exc |-> "ValueError", ts |-> NaT]
                 ELSE [exc |-> NoExc,
                       ts |-> [year |-> str.yyyy, month |-> m, day |-> str.dd,
                               hour |-> str.hh, minute |-> str.mi]]

\* t.strftime("%B %d, %Y") and t.strftime("%Y-%m-%d"), kept by their fields.
StrftimeTitle(t) == [B |-> MonthName[t.month], d |-> t.day, Y |-> t.year]
StrftimeIso(t) == [Y |-> t.year, m |-> t.month, d |-> t.day]

(***************************************************************************)
(* process_input_data                                                      *)
(*                                                                         *)
(* The JSON text is kept by what json.loads makes of it: json is "object", *)
(* "array" or "invalid"; for an object, columns are the keys it holds,     *)
(* sleep the rows of the sleep_* arrays and steps the steps_value array.   *)
(***************************************************************************)
SleepLabels == {"REM", "Core", "Deep", "In Bed", "Awake"}
CountedAsSleep == {"REM", "Core", "Deep"}
AllColumns == {"sleep_start_date", "sleep_end_date", "sleep_label", "steps_value"}
SummaryKeys == {"total_daily_sleep", "last_night_sleep", "last_night_time_in_bed",
                "sleep_end_date", "total_yesterday_steps"}

\* func.py 135-138: one row of df_sleep with its sleep_duration, in minutes.
SleepRow(i, sample) ==
    [idx |-> i,
     sleep_label |-> sample.sleep_label,
     sleep_start_date |-> ToDatetime(sample.sleep_start_date).ts,
     sleep_end_date |-> ToDatetime(sample.sleep_end_date).ts,
     sleep_duration |-> ToMinutes(ToDatetime(sample.sleep_end_date).ts)
                          - ToMinutes(ToDatetime(sample.sleep_start_date).ts)]

\* func.py 141-144: the rows dropped from df_last_night.
BeforeLastNight(row, yesterday) ==
    row.sleep_end_date.day = yesterday.day /\ row.sleep_end_date.hour < 12

\* func.py 140-145
LastNight(rows, yesterday) ==
    LET Keep(row) == ~BeforeLastNight(row, yesterday)
    IN  SelectSeq(rows, Keep)

\* <rows with a label in labels>["sleep_duration"].sum(), in minutes
DurationSum(rows, labels) ==
    LET Labelled(row) == row.sleep_label \in labels
        sel == SelectSeq(rows, Labelled)
    IN  SumSeq([i \in 1..Len(sel) |-> sel[i].sleep_duration])

\* Mutant: time in bed wins whenever it is not zero.
TotalDailySleepInBedFirst(last_night_sleep, last_night_time_in_bed) ==
    IF last_night_time_in_bed = 0 THEN last_night_sleep ELSE last_night_time_in_bed

\* func.py 161-163
TotalDailySleep(last_night_sleep, last_night_time_in_bed) ==
    IF last_night_sleep = 0 THEN last_night_time_in_bed ELSE last_night_sleep

\* df["sleep_end_date"].max(): NaT for no rows.
MaxEndDate(rows) ==
    IF rows = << >> THEN NaT
    ELSE LET i == CHOOSE a \in 1..Len(rows) : \A b \in 1..Len(rows) :
                      ToMinutes(rows[b].sleep_end_date) <= ToMinutes(rows[a].sleep_end_date)
         IN  rows[i].sleep_end_date

\* The first exception raised inside the try block, NoExc when it runs through.
ProcessFailure(data) ==
    LET BadDate(col) == \E i \in 1..Len(data.sleep) :
                            ToDatetime(data.sleep[i][col]).exc # NoExc
        BadStep == \E i \in 1..Len(data.steps) : PyInt(PyStrOf(data.steps[i])).exc # NoExc
    IN  CASE data.json = "invalid" -> "JSONDecodeError"
          [] data.json = "array" -> "AttributeError"
          [] "sleep_start_date" \notin data.columns -> "KeyError"
          [] BadDate("sleep_start_date") -> "ValueError"
          [] "sleep_end_date" \notin data.columns -> "KeyError"
          [] BadDate("sleep_end_date") -> "ValueError"
          [] "sleep_label" \notin data.columns -> "KeyError"
          [] "steps_value" \notin data.columns -> "KeyError"
          [] BadStep -> "ValueError"
          [] OTHER -> NoExc

\* func.py 124-176: the try block.  cleaned is cleaned_data when the block is
\* left, window is df_last_night.
ProcessBody(data, now) ==
    LET failure == ProcessFailure(data)
    IN  IF failure # NoExc
        THEN [exc |-> failure, cleaned |-> EmptyDict, window |-> << >>, log |-> << >>]
        ELSE LET rows == [i \in 1..Len(data.sleep) |-> SleepRow(i, data.sleep[i])]
                 yesterday == MinusOneDay(now)
                 window == LastNight(rows, yesterday)
                 last_night_sleep == DurationSum(window, CountedAsSleep)
                 last_night_time_in_bed == DurationSum(window, {"In Bed"})
                 total_steps == SumSeq([i \in 1..Len(data.steps) |->
                                            PyInt(PyStrOf(data.steps[i])).val])
             IN  [exc |-> NoExc,
                  cleaned |->
                     [total_daily_sleep |->
                          TotalDailySleep(last_night_sleep, last_night_time_in_bed),
                      last_night_sleep |-> last_night_sleep,
                      last_night_time_in_bed |-> last_night_time_in_bed,
                      sleep_end_date |-> MaxEndDate(window),
                      total_yesterday_steps |-> total_steps],
                  window |-> window,
                  log |-> << [level |-> "INFO", about |-> "processed"] >>]

\* Mutant: the error is logged and raised again.
ProcessHandlerReraise(body) ==
    IF body.exc = NoExc THEN body
    ELSE [body EXCEPT !.log = Append(@, [level |-> "ERROR", about |-> body.exc])]

\* func.py 178-181: except Exception: logger.error(e); return cleaned_data
ProcessHandler(body) ==
    IF body.exc = NoExc THEN body
    ELSE [body EXCEPT !.log = Append(@, [level |-> "ERROR", about |-> body.exc]),
                      !.exc = NoExc]

process_input_data(data, now) == ProcessHandler(ProcessBody(data, now))

\* The inputs of the model.
DateStr(dd, mon, yyyy, hh, mi) == [dd |-> dd, mon |-> mon, yyyy |-> yyyy, hh |-> hh, mi |-> mi]

StartStrings == { DateStr(14, "Mar", 2024, 1, 0) }
EndStrings == { DateStr(15, "Mar", 2024, 2, 0),      \* today
                DateStr(14, "Mar", 2024, 8, 0),      \* yesterday morning
                DateStr(14, "Mar", 2024, 23, 30),    \* yesterday evening
                DateStr(14, "Feb", 2024, 8, 0) }     \* a month earlier, morning
BadDateStrings == { DateStr(31, "Feb", 2024, 8, 0), DateStr(14, "Foo", 2024, 8, 0) }
StepStrings == { <<"1", "0", "0">>, <<"5", "0">>, <<"x">> }
Nows == { [year |-> 2024, month |-> 3, day |-> 15, hour |-> 7, minute |-> 0],
          [year |-> 2024, month |-> 3, day |-> 1, hour |-> 7, minute |-> 0] }

Samples == [sleep_label : SleepLabels, sleep_start_date : StartStrings,
            sleep_end_date : EndStrings]
OneSample == [sleep_label |-> "Core", sleep_start_date |-> DateStr(14, "Mar", 2024, 1, 0),
              sleep_end_date |-> DateStr(15, "Mar", 2024, 2, 0)]
Data(json, columns, sleep, steps) ==
    [json |-> json, columns |-> columns, sleep |-> sleep, steps |-> steps]

WellFormedData ==
    { Data("object", AllColumns, sl, << <<"1", "0", "0">> >>) :
          sl \in SeqsUpTo(Samples, MaxSamples) }
      \cup { Data("object", AllColumns, << OneSample >>, st) :
                st \in SeqsUpTo(StepStrings, MaxSteps) }
MalformedData ==
    { Data(j, AllColumns, << OneSample >>, << <<"5", "0">> >>) : j \in {"invalid", "array"} }
      \cup { Data("object", AllColumns \ {c}, << OneSample >>, << <<"5", "0">> >>) :
                c \in AllColumns }
      \cup { Data("object", AllColumns,
                  << [OneSample EXCEPT ![c] = bad] >>, << <<"5", "0">> >>) :
                c \in {"sleep_start_date", "sleep_end_date"}, bad \in BadDateStrings }
Inputs == WellFormedData \cup MalformedData

CallProcessInputData ==
    /\ pc = "idle"
    /\ \E data \in Inputs, now \in Nows :
          LET r == process_input_data(data, now)
          IN  /\ arg' = [data |-> data, now |-> now]
              /\ ret' = IF r.exc = NoExc THEN r.cleaned ELSE None
              /\ raised' = r.exc
              /\ log' = r.log
              /\ df_last_night' = r.window
    /\ pc' = "processed"
    /\ UNCHANGED <<requests, exitCode>>

(***************************************************************************)
(* create_daily_page                                                       *)
(***************************************************************************)
\* The summaries handed to the page writer: what process_input_data returns.
SummaryInputs ==
    MalformedData
      \cup { Data("object", AllColumns, sl, << <<"5", "0">> >>) : sl \in SeqsUpTo(Samples, 1) }
Summaries == { process_input_data(d, now).cleaned : d \in SummaryInputs, now \in Nows }

\* The block lists handed over as page content.
SmallApis == ApisOfSize(0) \cup ApisOfSize(1)
TemplateChildren == { get_children_rec(api, 0).blocks : api \in SmallApis }

ApiOutcomes == {"ok", "error"}

\* Mutant: a summary without a usable date falls back to the run date.
TitleDateOrToday(summary, now) ==
    IF "sleep_end_date" \notin DOMAIN summary THEN [exc |-> NoExc, ts |-> now]
    ELSE IF IsNaT(summary.sleep_end_date) THEN [exc |-> NoExc, ts |-> now]
    ELSE [exc |-> NoExc, ts |-> summary.sleep_end_date]

\* func.py 232-233: dict_cleaned_data["sleep_end_date"].strftime(...): KeyError
\* without the key, ValueError for NaT (NaT does not support strftime).
TitleDate(summary, now) ==
    IF "sleep_end_date" \notin DOMAIN summary THEN [exc |-> "KeyError", ts |-> NaT]
    ELSE IF IsNaT(summary.sleep_end_date) THEN [exc |-> "ValueError", ts |-> NaT]
    ELSE [exc |-> NoExc, ts |-> summary.sleep_end_date]

\* func.py 235-272: the properties and the request built from them.
CreateRequest(summary, date, children) ==
    [op |-> "pages.create",
     date |-> [start |-> StrftimeIso(date), end |-> None],
     sleep |-> IF "total_daily_sleep" \in DOMAIN summary
               THEN summary.total_daily_sleep ELSE 0,
     title |-> StrftimeTitle(date),
     children |-> children]

\* func.py 229-274: the try block.
CreateBody(summary, children, now, outcome) ==
    LET date == TitleDate(summary, now)
    IN  IF date.exc # NoExc
        THEN [exc |-> date.exc, reqs |-> << >>, log |-> << >>]
        ELSE IF outcome = "error"
        THEN [exc |-> "APIResponseError",
              reqs |-> << CreateRequest(summary, date.ts, children) >>,
              log |-> << >>]
        ELSE [exc |-> NoExc,
              reqs |-> << CreateRequest(summary, date.ts, children) >>,
              log |-> << [level |-> "INFO", about |-> "created"] >>]

\* Mutant: the error is logged and raised again.
CreateHandlerReraise(body) ==
    IF body.exc = NoExc THEN body
    ELSE [body EXCEPT !.log = Append(@, [level |-> "ERROR", about |-> body.exc])]

\* func.py 276-277: except Exception: logger.error(...)
CreateHandler(body) ==
    IF body.exc = NoExc THEN body
    ELSE [body EXCEPT !.log = Append(@, [level |-> "ERROR", about |-> body.exc]),
                      !.exc = NoExc]

create_daily_page(summary, children, now, outcome) ==
    CreateHandler(CreateBody(summary, children, now, outcome))

CallCreateDailyPage ==
    /\ pc = "idle"
    /\ \E summary \in Summaries, children \in TemplateChildren,
          now \in Nows, outcome \in ApiOutcomes :
          LET r == create_daily_page(summary, children, now, outcome)
          IN  /\ arg' = [summary |-> summary, children |-> children,
                         now |-> now, outcome |-> outcome]
              /\ raised' = r.exc
              /\ requests' = r.reqs
              /\ log' = r.log
    /\ ret' = None
    /\ pc' = "created"
    /\ UNCHANGED <<df_last_night, exitCode>>

(***************************************************************************)
(* update_yesterday_page                                                   *)
(*                                                                         *)
(* The database query returns pages [id, start], start being the date-only *)
(* text "YYYY-MM-DD" of the page's date property, kept by its fields.      *)
(***************************************************************************)
PageDates == { [Y |-> 2024, m |-> 3, d |-> 14], [Y |-> 2024, m |-> 3, d |-> 13],
               [Y |-> 2024, m |-> 2, d |-> 29] }

QueryResults ==
    { q \in SeqsUpTo([id : 1..MaxPages, start : PageDates], MaxPages) :
          \A i, j \in 1..Len(q) : i # j => q[i].id # q[j].id }

\* pd.to_datetime("YYYY-MM-DD"): midnight of that day.
PageDate(page) ==
    [year |-> page.start.Y, month |-> page.start.m, day |-> page.start.d,
     hour |-> 0, minute |-> 0]

\* Series == "Month DD, YYYY": pandas parses the text into a timestamp by
\* looking the month name up, and compares timestamps.
EqualsDateText(t, text) ==
    \E k \in 1..12 :
        /\ MonthName[k] = text.B
        /\ t = [year |-> text.Y, month |-> k, day |-> text.d, hour |-> 0, minute |-> 0]

\* func.py 205-208: the positions of the pages dated yesterday.
MatchingPages(pages, now) ==
    LET yesterday == StrftimeTitle(MinusOneDay(now))
    IN  { i \in 1..Len(pages) : EqualsDateText(PageDate(pages[i]), yesterday) }

\* Mutant: the last matching page is taken.
LastMatch(pages, now) ==
    pages[CHOOSE i \in MatchingPages(pages, now) :
              \A j \in MatchingPages(pages, now) : j <= i].id

\* func.py 209: pages_with_yesterday_date["id"].values[0]
FirstMatch(pages, now) ==
    pages[CHOOSE i \in MatchingPages(pages, now) :
              \A j \in MatchingPages(pages, now) : i <= j].id

\* The classes of error an empty query result ends in: building page_date
\* from a frame without rows or columns fails in a way that depends on the
\* pandas release.
EmptyFrameErrors == {"ValueError", "IndexError", "KeyError"}

QueryRequest == [op |-> "databases.query", filter |-> "this_week"]
UpdateRequest(page_id, steps) == [op |-> "pages.update", page_id |-> page_id, steps |-> steps]

\* func.py 189-217; nothing is caught.
update_yesterday_page(pages, summary, now, query, update, emptyError) ==
    LET asked == << [level |-> "INFO", about |-> "querying"] >>
    IN  IF query = "error"
        THEN [exc |-> "APIResponseError", reqs |-> << QueryRequest >>, log |-> asked]
        ELSE IF pages = << >>
        THEN [exc |-> emptyError, reqs |-> << QueryRequest >>, log |-> asked]
        ELSE IF MatchingPages(pages, now) = {}
        THEN [exc |-> "IndexError", reqs |-> << QueryRequest >>, log |-> asked]
        ELSE IF "total_yesterday_steps" \notin DOMAIN summary
        THEN \* int(None)
             [exc |-> "TypeError", reqs |-> << QueryRequest >>, log |-> asked]
        ELSE LET sent == << QueryRequest,
                            UpdateRequest(FirstMatch(pages, now),
                                          summary.total_yesterday_steps) >>
             IN  IF update = "error"
                 THEN [exc |-> "APIResponseError", reqs |-> sent, log |-> asked]
                 ELSE [exc |-> NoExc, reqs |-> sent,
                       log |-> Append(asked, [level |-> "INFO", about |-> "updated"])]

CallUpdateYesterdayPage ==
    /\ pc = "idle"
    /\ \E pages \in QueryResults, summary \in Summaries, now \in Nows,
          query \in ApiOutcomes, update \in ApiOutcomes, emptyError \in EmptyFrameErrors :
          LET r == update_yesterday_page(pages, summary, now, query, update, emptyError)
          IN  /\ arg' = [pages |-> pages, summary |-> summary, now |-> now,
                         query |-> query, update |-> update]
              /\ raised' = r.exc
              /\ requests' = r.reqs
              /\ log' = r.log
    /\ ret' = None
    /\ pc' = "updated"
    /\ UNCHANGED <<df_last_night, exitCode>>

(***************************************************************************)
(* morning_script.py                                                       *)
(***************************************************************************)
\* The names utils/func.py defines (func.py 14, 49, 61, 93, 117, 184, 220).
FuncNames == {"setup_logger", "init_notion_client", "convert_duration_to_hours",
              "get_children_rec", "process_input_data", "update_yesterday_page",
              "create_daily_page"}

\* The names morning_script.py asks utils.func for (lines 3-10).
ScriptImports == {"init_notion_client", "get_children_rec", "create_page",
                  "setup_logger", "process_input_data"}

\* from utils.func import (...): ImportError for a name the module lacks.
ImportStatement == IF ScriptImports \subseteq FuncNames THEN NoExc ELSE "ImportError"

\* A run with --data given.  An exception nobody catches ends the process
\* with status 1 before the next statement; lines 36-63 run only after the
\* imports, and the page is written by the page writer of utils.func.
morning_script(data, api, now, outcome) ==
    IF ImportStatement # NoExc
    THEN [exit |-> 1, exc |-> ImportStatement, reqs |-> << >>, log |-> << >>, ended |-> FALSE]
    ELSE LET cleaned == process_input_data(data, now)
             children == get_children_rec(api, 0)
             page == create_daily_page(cleaned.cleaned, children.blocks, now, outcome)
         IN  [exit |-> 0, exc |-> NoExc,
              reqs |-> children.reqs \o page.reqs,
              log |-> cleaned.log \o ErrorRecords(children.errs) \o page.log,
              ended |-> TRUE]

RunMorningScript ==
    /\ pc = "idle"
    /\ \E data \in SummaryInputs, api \in SmallApis,
          now \in Nows, outcome \in ApiOutcomes :
          LET r == morning_script(data, api, now, outcome)
          IN  /\ arg' = [data |-> data, api |-> api, now |-> now, outcome |-> outcome]
              /\ ret' = r.ended
              /\ raised' = r.exc
              /\ requests' = r.reqs
              /\ log' = r.log
              /\ exitCode' = r.exit
    /\ pc' = "exited"
    /\ UNCHANGED df_last_night

Init ==
    /\ pc = "idle"
    /\ arg = None
    /\ ret = None
    /\ raised = NoExc
    /\ requests = << >>
    /\ log = << >>
    /\ df_last_night = << >>
    /\ exitCode = None

\* One call is made per run of the model: the script is a one-shot process.
Next ==
    \/ CallConvertDuration
    \/ CallGetChildrenRec
    \/ CallProcessInputData
    \/ CallCreateDailyPage
    \/ CallUpdateYesterdayPage
    \/ RunMorningScript

Spec == Init /\ [][Next]_vars

\* C7: every duration string of the form H:MM:SS, M:SS or SS with integer
\* fields is converted to 3600*H + 60*M + S seconds (H + M/60 + S/3600 hours),
\* the missing higher units counting as zero.
IntegerFields(s) ==
    /\ Len(Split(s)) \in {1, 2, 3}
    /\ \A i \in 1..Len(Split(s)) :
          /\ Split(s)[i] # << >>
          /\ \A j \in 1..Len(Split(s)[i]) : Split(s)[i][j] \in Digits

ExpectedSeconds(s) ==
    LET p == Split(s)
        n == Len(p)
    IN  SumSeq([i \in 1..n |->
            DecimalValue(p[i]) * (IF i = n THEN 1 ELSE IF i = n - 1 THEN 60 ELSE 3600)])

C7_DurationFormula ==
    (pc = "converted" /\ IntegerFields(arg))
        => (raised = NoExc /\ ret = ExpectedSeconds(arg))

(***************************************************************************)
(* Reading a fetched tree                                                  *)
(***************************************************************************)
\* Every block of a result, at any depth.
RECURSIVE AllBlocks(_)
AllBlocks(blocks) ==
    UNION { {blocks[i]} \cup AllBlocks(blocks[i].obj.children) : i \in 1..Len(blocks) }

\* The ids of a result in depth-first order.
RECURSIVE FlatIds(_)
FlatIds(blocks) ==
    IF blocks = << >> THEN << >>
    ELSE << Head(blocks).id >> \o FlatIds(Head(blocks).obj.children) \o FlatIds(Tail(blocks))

Ids(blocks) == [i \in 1..Len(blocks) |-> blocks[i].id]

Requested == { requests[i].block_id : i \in 1..Len(requests) }

\* The blocks of the template, in depth-first API order, that lie below
\* neither a block whose listing fails nor a synced block.
RECURSIVE Walk(_, _)
RECURSIVE WalkList(_, _)
WalkList(api, ids) ==
    IF ids = << >> THEN << >>
    ELSE << Head(ids) >> \o Walk(api, Head(ids)) \o WalkList(api, Tail(ids))
Walk(api, id) ==
    IF id \in api.fails \/ (id # 0 /\ api.type[id] = "synced_block")
    THEN << >>
    ELSE WalkList(api, ChildIds(api, id))

\* C3: a list-children request is issued for a child iff it reports
\* has_children and is not a synced_block; an expanded child holds the list
\* fetched for it under "children" in the entry keyed by its type; a synced
\* block is returned unexpanded whatever has_children says.
C3_ExpandIffHasChildrenAndNotSynced ==
    pc = "fetched" =>
        /\ Len(requests) = Cardinality(Requested)
        /\ \A b \in AllBlocks(ret) :
              /\ (b.id \in Requested) <=> (b.has_children /\ b.type # "synced_block")
              /\ (b.has_children /\ b.type # "synced_block") =>
                    /\ b.obj.key = b.type
                    /\ "children" \in b.obj.keys
                    /\ Ids(b.obj.children) =
                          (IF b.id \in arg.fails THEN << >> ELSE ChildIds(arg, b.id))
              /\ (b.type = "synced_block" \/ ~b.has_children) =>
                    /\ "children" \notin b.obj.keys
                    /\ b.obj.children = << >>

C3_Witness ==
    /\ pc = "fetched"
    /\ \E b \in AllBlocks(ret) : b.type = "synced_block" /\ b.has_children
    /\ \E b \in AllBlocks(ret) : b.type # "synced_block" /\ b.obj.children # << >>

\* C6: a failing list-children request never makes get_children_rec raise;
\* the call for the failing block returns an empty list, and the result holds,
\* in API order, every block outside the subtrees that could not be listed.
C6_PartialSuccess ==
    pc = "fetched" =>
        /\ raised = NoExc
        /\ FlatIds(ret) = Walk(arg, 0)
        /\ \A b \in AllBlocks(ret) :
              (b.id \in arg.fails /\ b.id \in Requested) => b.obj.children = << >>
        /\ 0 \in arg.fails => ret = << >>
        /\ { log[i].about : i \in 1..Len(log) } = arg.fails \cap Requested

C6_Witness ==
    /\ pc = "fetched"
    /\ \E b \in AllBlocks(ret), later \in AllBlocks(ret) :
          /\ b.id \in arg.fails
          /\ b.has_children
          /\ b.type # "synced_block"
          /\ later.id > b.id
          /\ arg.parent[later.id] = arg.parent[b.id]

(***************************************************************************)
(* Reading an aggregation                                                  *)
(***************************************************************************)
Succeeded == pc = "processed" /\ raised = NoExc /\ DOMAIN ret = SummaryKeys

\* The duration of the i-th sample of the input, end minus start, in minutes.
SampleMinutes(i) ==
    ToMinutes(ToDatetime(arg.data.sleep[i].sleep_end_date).ts)
        - ToMinutes(ToDatetime(arg.data.sleep[i].sleep_start_date).ts)

\* The input samples that are in the last-night window.
WindowIndexes == { df_last_night[k].idx : k \in 1..Len(df_last_night) }

RECURSIVE SumOver(_)
SumOver(I) ==
    IF I = {} THEN 0
    ELSE LET i == CHOOSE x \in I : TRUE IN SampleMinutes(i) + SumOver(I \ {i})

WindowMinutes(labels) ==
    SumOver({ i \in WindowIndexes : arg.data.sleep[i].sleep_label \in labels })

\* C1: last_night_sleep is the summed duration of the window's REM, Core and
\* Deep samples, last_night_time_in_bed that of its In Bed samples, and
\* total_daily_sleep is the time in bed when last_night_sleep is 0 and
\* last_night_sleep otherwise.
C1_SleepWinsOverTimeInBed ==
    Succeeded =>
        /\ ret.last_night_sleep = WindowMinutes({"REM", "Core", "Deep"})
        /\ ret.last_night_time_in_bed = WindowMinutes({"In Bed"})
        /\ ret.last_night_sleep = 0 => ret.total_daily_sleep = ret.last_night_time_in_bed
        /\ ret.last_night_sleep # 0 => ret.total_daily_sleep = ret.last_night_sleep

C1_Witness ==
    /\ Succeeded
    /\ ret.last_night_sleep # 0
    /\ ret.last_night_time_in_bed # 0
    /\ ret.last_night_time_in_bed # ret.last_night_sleep
    /\ ret.total_daily_sleep = ret.last_night_sleep

\* C2: a sample is left out of the last-night window iff its end falls on
\* yesterday's calendar date (the day before the run date) before 12:00.
EndsYesterdayMorning(i) ==
    LET end == ToDatetime(arg.data.sleep[i].sleep_end_date).ts
        yesterday == MinusOneDay(arg.now)
    IN  /\ end.year = yesterday.year
        /\ end.month = yesterday.month
        /\ end.day = yesterday.day
        /\ end.hour < 12

C2_WindowExcludesYesterdayMorningOnly ==
    Succeeded =>
        \A i \in 1..Len(arg.data.sleep) :
            (i \notin WindowIndexes) <=> EndsYesterdayMorning(i)

\* C4: process_input_data never raises; when a step fails (invalid JSON, a
\* missing column, an unparseable date, a non-integer step value) the failure
\* is logged and {} is returned; otherwise all five keys are returned.
InputFails(d) ==
    \/ d.json # "object"
    \/ ~(AllColumns \subseteq d.columns)
    \/ \E i \in 1..Len(d.sleep) :
          \/ ToDatetime(d.sleep[i].sleep_start_date).exc # NoExc
          \/ ToDatetime(d.sleep[i].sleep_end_date).exc # NoExc
    \/ \E i \in 1..Len(d.steps) :
          d.steps[i] = << >> \/ \E j \in 1..Len(d.steps[i]) : d.steps[i][j] \notin Digits

C4_EmptyOrComplete ==
    pc = "processed" =>
        /\ raised = NoExc
        /\ DOMAIN ret = {} \/ DOMAIN ret = SummaryKeys
        /\ InputFails(arg.data) =>
              /\ DOMAIN ret = {}
              /\ \E i \in 1..Len(log) : log[i].level = "ERROR"
        /\ ~InputFails(arg.data) => DOMAIN ret = SummaryKeys

C4_Witness ==
    /\ pc = "processed"
    /\ InputFails(arg.data)
    /\ raised = NoExc
    /\ DOMAIN ret = {}
    /\ log # << >>

(***************************************************************************)
(* Reading the page writer                                                 *)
(***************************************************************************)
RequestsOf(op) == SelectSeq(requests, LAMBDA r : r.op = op)
Logged(level) == \E i \in 1..Len(log) : log[i].level = level

\* C5: create_daily_page returns normally for every summary and every
\* outcome of the create-page call; an error is logged, never propagated, and
\* at most one create-page request is sent.
C5_CreateNeverRaisesNorRetries ==
    pc = "created" =>
        /\ raised = NoExc
        /\ ret = None
        /\ Len(requests) <= 1
        /\ \A i \in 1..Len(requests) : requests[i].op = "pages.create"
        /\ (arg.outcome = "error" \/ requests = << >>) => Logged("ERROR")

C5_Witness ==
    /\ pc = "created"
    /\ arg.outcome = "error"
    /\ Len(requests) = 1
    /\ raised = NoExc
    /\ Logged("ERROR")

\* C10: for the empty summary, or one without a usable sleep_end_date, no
\* create-page request is sent; a request is sent only for a summary whose
\* sleep_end_date is a timestamp, and carries that date.
UsableDate(summary) ==
    /\ "sleep_end_date" \in DOMAIN summary
    /\ summary.sleep_end_date # NaT

C10_NoPageWithoutDate ==
    pc = "created" =>
        /\ ~UsableDate(arg.summary) => requests = << >>
        /\ \A i \in 1..Len(requests) :
              /\ UsableDate(arg.summary)
              /\ requests[i].date.start.Y = arg.summary.sleep_end_date.year
              /\ requests[i].date.start.m = arg.summary.sleep_end_date.month
              /\ requests[i].date.start.d = arg.summary.sleep_end_date.day

C10_Witness ==
    /\ pc = "created"
    /\ DOMAIN arg.summary = {}
    /\ arg.outcome = "ok"
    /\ requests = << >>

\* The pages of the query result dated yesterday, by position.
DatedYesterday ==
    { i \in 1..Len(arg.pages) : arg.pages[i].start = StrftimeIso(MinusOneDay(arg.now)) }

NoUpdateSent == RequestsOf("pages.update") = << >>

OneUpdateToFirstMatch ==
    /\ Len(RequestsOf("pages.update")) = 1
    /\ \E i \in DatedYesterday :
          /\ \A j \in DatedYesterday : i <= j
          /\ RequestsOf("pages.update")[1].page_id = arg.pages[i].id

\* C9 as stated: without a page dated yesterday the error propagates and no
\* update-page request is sent; with one, exactly one update-page request is
\* sent, to the first matching page.
C9_UpdateWheneverAPageMatches ==
    (pc = "updated" /\ arg.query = "ok") =>
        /\ DatedYesterday = {} => (raised # NoExc /\ NoUpdateSent)
        /\ DatedYesterday # {} => OneUpdateToFirstMatch

\* C9 amended: the update is sent when a page matches and the summary holds
\* total_yesterday_steps; a summary without it (the empty summary of a failed
\* aggregation) makes the call raise before any update-page request.
C9_UpdateNeedsMatchAndSteps ==
    (pc = "updated" /\ arg.query = "ok") =>
        /\ DatedYesterday = {} => (raised # NoExc /\ NoUpdateSent)
        /\ (DatedYesterday # {} /\ "total_yesterday_steps" \in DOMAIN arg.summary) =>
              /\ OneUpdateToFirstMatch
              /\ RequestsOf("pages.update")[1].steps = arg.summary.total_yesterday_steps
        /\ (DatedYesterday # {} /\ "total_yesterday_steps" \notin DOMAIN arg.summary) =>
              (raised # NoExc /\ NoUpdateSent)

C9_Witness ==
    /\ pc = "updated"
    /\ arg.query = "ok"
    /\ Cardinality(DatedYesterday) = 2
    /\ "total_yesterday_steps" \in DOMAIN arg.summary
    /\ OneUpdateToFirstMatch
    /\ arg.pages[1].id > arg.pages[2].id

\* C8: a run given --data reaches the end of the pipeline and exits with
\* status 0.
C8_ExitsZero ==
    pc = "exited" => (exitCode = 0 /\ ret = TRUE)
====
